---- MODULE Spec2Model ----
(***************************************************************************)
(* A model of the syntreenet knowledge base: the fact index (FactSet), the *)
(* condition index (CondSet / ConsSet) and the activation processor of     *)
(* KnowledgeBase.                                                          *)
(*                                                                         *)
(* Conventions of the model.                                               *)
(*  - A text is a sequence of tokens; offsets count tokens.                *)
(*  - The parser is an external collaborator.  The model fixes one         *)
(*    grammar,                                                             *)
(*        fact  = arg pred v_obj ext / arg pred v_obj                      *)
(*        arg   = var / v_word        ext   = var / v_word                 *)
(*        v_obj = var / word          pred  = "is"                         *)
(*    so that a fact has a logic leaf (v_word), a non-logic leaf (pred,    *)
(*    word), a variable-range interior node (v_obj), and so that the leaf  *)
(*    paths of a three-token fact are a prefix of those of a four-token    *)
(*    fact.                                                                *)
(*  - Segments and paths are compared as Segment.__equals__ and            *)
(*    Path.__equals__ state it: by identity_tuple.                         *)
(*  - A Fact is frozen and always built by from_parse_tree from a parsed   *)
(*    text, so a fact is represented by its text and its paths are         *)
(*    from_parse_tree(text).                                               *)
(***************************************************************************)
EXTENDS Integers, Sequences, FiniteSets, TLC

VARIABLES
    fset,            \* kb.fset: the tree of SSNodes, location |-> ordered logic_children keys
    dset,            \* kb.dset: the tree of conditions, location |-> the endnode's conditions
    sset,            \* kb.sset: the tree of consequences, same shape
    activations,     \* kb.activations
    processing,      \* kb.processing
    counter,         \* kb.counter
    querying_rules,  \* kb.querying_rules
    seen_rules,      \* kb.seen_rules
    pc,              \* "idle": no call is running; "loop": process is in its while loop
    told,            \* history: the sentences tell was called with, in order
    turns,           \* history: the states the loop of the running call of process was in
    added,           \* history: the facts handed to FactSet.add_fact so far
    nadds,           \* history: number of add_fact calls made directly
    lastop,          \* history: the last FactSet operation and its argument
    answer,          \* history: the list the last direct ask_fact call returned
    result,          \* history: what the last call of query or goal returned
    m1,              \* a Matching the Matching operations are called on
    m2,              \* a second Matching, the argument of merge and get_real_matching
    m3,              \* a third Matching
    mout,            \* history: the last Matching operation and what it returned
    nout             \* history: the last Fact.normalize call and what it returned

kbvars == <<dset, sset, activations, processing, counter, querying_rules, seen_rules, pc,
            told, turns>>

vars == <<fset, dset, sset, activations, processing, counter, querying_rules, seen_rules,
          pc, told, turns, added, nadds, lastop, answer, result, m1, m2, m3, mout,
          nout>>

\* the variables of the Matching and Fact operations
mvars == <<m1, m2, m3, mout, nout>>

(***************************************************************************)
(* Bounds                                                                  *)
(***************************************************************************)
MaxAdds == 3

MaxTells == 3

\* kb.counter is kept up to this value and stays there
MaxCounter == 6

\* the turns of the loop of process a run of tell is followed for
MaxTurns == 12

Words == {"a", "b"}
Preds == {"is"}
VarToks == {"X1", "X2"}
NormVarToks == {"__X1", "__X2"}

\* Python None, where a segment or a path is expected
NoSegment == [name |-> "None", text |-> <<>>]

NoPath == <<>>

(***************************************************************************)
(* Small helpers on sequences (Python slices never fail on a long index)   *)
(***************************************************************************)
Min(x, y) == IF x < y THEN x ELSE y

Take(s, n) == SubSeq(s, 1, Min(n, Len(s)))

Drop(s, n) == SubSeq(s, Min(n, Len(s)) + 1, Len(s))

RECURSIVE Concat(_)
Concat(ss) == IF ss = <<>> THEN <<>> ELSE Head(ss) \o Concat(Tail(ss))

RECURSIVE SelectSeqIdx(_, _, _)
\* the subsequence of s at the indices of the set keep, in order
SelectSeqIdx(s, keep, i) ==
    IF i > Len(s) THEN <<>>
    ELSE (IF i \in keep THEN <<s[i]>> ELSE <<>>) \o SelectSeqIdx(s, keep, i + 1)

(***************************************************************************)
(* The parser interface (kb.parse, kb.from_parse_tree)                     *)
(***************************************************************************)
IsVarTok(t) == t \in VarToks \cup NormVarToks

IsTermTok(t) == IsVarTok(t) \/ t \in Words

\* kb.parse succeeds on the text (otherwise it raises ParseError)
parses(text) ==
    /\ Len(text) \in {3, 4}
    /\ IsTermTok(text[1])
    /\ text[2] \in Preds
    /\ \A i \in 3..Len(text) : IsTermTok(text[i])

Segment(name, text, start, end, leaf) ==
    [name |-> name, text |-> text, start |-> start, end |-> end, leaf |-> leaf]

\* Segment.identity_tuple
SegId(seg) == [name |-> seg.name, text |-> seg.text]

\* the paths of the fact parsed from text, in depth-first order: one path per
\* leaf and per variable-range (v_) node
from_parse_tree(text) ==
    LET root == Segment("fact", text, 0, Len(text), FALSE)
        leafname(t, n) == IF IsVarTok(t) THEN "var" ELSE n
        arg == Segment("arg", <<text[1]>>, 0, 1, FALSE)
        argleaf == Segment(leafname(text[1], "v_word"), <<text[1]>>, 0, 1, TRUE)
        pred == Segment("pred", <<text[2]>>, 1, 2, TRUE)
        obj == Segment("v_obj", <<text[3]>>, 2, 3, FALSE)
        objleaf == Segment(leafname(text[3], "word"), <<text[3]>>, 0, 1, TRUE)
        ext == Segment("ext", <<text[4]>>, 3, 4, FALSE)
        extleaf == Segment(leafname(text[4], "v_word"), <<text[4]>>, 0, 1, TRUE)
    IN  << <<root, arg, argleaf>>, <<root, pred>>, <<root, obj>>, <<root, obj, objleaf>> >>
        \o (IF Len(text) = 4 THEN << <<root, ext, extleaf>> >> ELSE <<>>)

EMPTY_FACT == <<>>

EMPTY_MATCHING == <<>>

\* Fact.get_all_paths
get_all_paths(fact) == IF fact = EMPTY_FACT THEN <<>> ELSE from_parse_tree(fact)

(***************************************************************************)
(* Path (grammar.py)                                                       *)
(***************************************************************************)
value(path) == path[Len(path)]

is_var(path) == value(path).name = "var"

\* Segment.can_be_var / Path.can_be_var: a variable or a v_ expression
IsVarRangeName(n) == n \in {"v_word", "v_obj"}

can_be_var(path) == is_var(path) \/ IsVarRangeName(value(path).name)

is_leaf(path) == value(path).leaf

\* Path.identity_tuple: the expression names and the text of the last segment
PathKey(path) == [names |-> [i \in 1..Len(path) |-> path[i].name], text |-> value(path).text]

\* the segment (identity) at the end of a path with this key
KeyValue(key) == [name |-> key.names[Len(key.names)], text |-> key.text]

\* Path.deep_identity_tuple
DeepId(path) == [i \in 1..Len(path) |-> path[i].name]

starts_with(self, path) ==
    /\ Len(self) >= Len(path)
    /\ DeepId(path) = SubSeq(DeepId(self), 1, Len(path))

leaves(ps) == SelectSeqIdx(ps, {i \in 1..Len(ps) : is_leaf(ps[i])}, 1)

\* Fact.get_leaf_paths
get_leaf_paths(fact) == leaves(get_all_paths(fact))

RECURSIVE paths_after_loop(_, _, _, _)
paths_after_loop(self, paths, i, seen) ==
    IF i > Len(paths) THEN <<>>
    ELSE IF ~seen /\ starts_with(paths[i], self)
         THEN paths_after_loop(self, paths, i + 1, TRUE)
         ELSE IF seen /\ ~starts_with(paths[i], self)
              THEN <<paths[i]>> \o paths_after_loop(self, paths, i + 1, seen)
              ELSE paths_after_loop(self, paths, i + 1, seen)

paths_after(self, paths) == paths_after_loop(self, paths, 1, FALSE)

(***************************************************************************)
(* Matching (grammar.py): an ordered tuple of (key, value) segment pairs   *)
(***************************************************************************)
MKeys(m) == {m[i][1] : i \in 1..Len(m)}

\* Matching.__contains__
contains(m, key) == SegId(key) \in MKeys(m)

\* the index of the first pair with this key
first_with_key(m, id) ==
    CHOOSE i \in 1..Len(m) : m[i][1] = id /\ \A j \in 1..(i - 1) : m[j][1] # id

\* Matching.get: the value of the first pair with this key, or None
get(m, key) == IF contains(m, key) THEN m[first_with_key(m, SegId(key))][2] ELSE NoSegment

\* a setitem that puts a new binding in front of the older ones
setitem_prepend(m, key, val) ==
    IF contains(m, key)
    THEN [i \in 1..Len(m) |-> IF m[i][1] = SegId(key) THEN <<SegId(key), SegId(val)>> ELSE m[i]]
    ELSE <<<<SegId(key), SegId(val)>>>> \o m

\* Matching.setitem: replace in place, or append
setitem(m, key, val) ==
    IF contains(m, key)
    THEN [i \in 1..Len(m) |-> IF m[i][1] = SegId(key) THEN <<SegId(key), SegId(val)>> ELSE m[i]]
    ELSE Append(m, <<SegId(key), SegId(val)>>)

RECURSIVE dict_of(_, _, _)
\* dict(self.mapping): the pairs in the order their keys first appear, a key
\* that comes again taking the later value
dict_of(m, i, nextmap) ==
    IF i > Len(m) THEN nextmap
    ELSE dict_of(m, i + 1, setitem(nextmap, m[i][1], m[i][2]))

\* the outcome of merge: the new mapping, or raised (ValueError)
Merged(mapping, raised) == [value |-> mapping, raised |-> raised]

RECURSIVE merge_front(_, _, _)
\* a merge that puts the new keys of other in front of the pairs it holds
merge_front(nextmap, other, i) ==
    IF i > Len(other) THEN Merged(nextmap, FALSE)
    ELSE IF contains(nextmap, other[i][1]) /\ get(nextmap, other[i][1]) # other[i][2]
    THEN Merged(EMPTY_MATCHING, TRUE)
    ELSE merge_front(setitem_prepend(nextmap, other[i][1], other[i][2]), other, i + 1)

RECURSIVE merge_update(_, _, _)
\* a merge that takes the value of other for a key the two bind differently
merge_update(nextmap, other, i) ==
    IF i > Len(other) THEN Merged(nextmap, FALSE)
    ELSE merge_update(setitem(nextmap, other[i][1], other[i][2]), other, i + 1)

RECURSIVE merge_loop(_, _, _)
\* the loop of merge over other.mapping
merge_loop(nextmap, other, i) ==
    IF i > Len(other) THEN Merged(nextmap, FALSE)
    ELSE IF contains(nextmap, other[i][1]) /\ get(nextmap, other[i][1]) # other[i][2]
    THEN Merged(EMPTY_MATCHING, TRUE)
    ELSE merge_loop(setitem(nextmap, other[i][1], other[i][2]), other, i + 1)

\* Matching.merge
merge(self, other) == merge_loop(dict_of(self, 1, EMPTY_MATCHING), other, 1)

(***************************************************************************)
(* Substitution (grammar.py)                                               *)
(***************************************************************************)
\* Segment.substitute, given matching.get(self)
substituted_segment(seg, matched) ==
    IF matched # NoSegment
    THEN Segment(matched.name, matched.text, seg.start, seg.start + Len(matched.text), TRUE)
    ELSE seg

\* Segment.substitute
seg_substitute(seg, m) == substituted_segment(seg, get(m, seg))

\* the least element of a set of indices, or 0
first_index(hit) == IF hit = {} THEN 0 ELSE CHOOSE i \in hit : \A j \in hit : i <= j

\* the index of the first segment of the path that the matching replaces, or 0
FirstReplaced(path, m) ==
    first_index({i \in 1..Len(path) : SegId(seg_substitute(path[i], m)) # SegId(path[i])})

\* the second loop of Path.substitute, for one ancestor: prev is spliced into
\* the text of the ancestor
spliced(segment, prev, offset) ==
    Segment(segment.name,
            Take(segment.text, prev.start) \o prev.text \o Drop(segment.text, prev.end),
            segment.start, segment.end + offset, FALSE)

\* Path.substitute when segment k is replaced by new_k.  The loop over the
\* ancestors splices prev into each ancestor and then sets prev to the
\* ancestor as it was; the path returned ends in the last prev.
substitute_at(path, k, new_k) ==
    [path |-> [j \in 1..k |->
                IF j < k
                THEN spliced(path[j], IF j = k - 1 THEN new_k ELSE path[j + 1],
                             new_k.end - path[k].end)
                ELSE IF k = 1 THEN new_k ELSE path[1]],
     old_path |-> SubSeq(path, 1, k)]

\* Path.substitute, given the index of the first replaced segment
substitute_from(path, m, k) ==
    IF k = 0 THEN [path |-> path, old_path |-> NoPath]
    ELSE substitute_at(path, k, seg_substitute(path[k], m))

\* Path.substitute: [path |-> the new path, old_path |-> the replaced prefix or NoPath]
path_substitute(path, m) == substitute_from(path, m, FirstReplaced(path, m))

\* a path that starts with an old path is passed over
NotSubstituted == [path |-> NoPath, old_path |-> NoPath]

new_leaf(r) == IF r.path # NoPath /\ is_leaf(r.path) THEN <<r.path>> ELSE <<>>

new_old_paths(r) == IF r.old_path # NoPath THEN {r.old_path} ELSE {}

RECURSIVE substitute_paths_loop(_, _, _, _)
RECURSIVE substitute_paths_next(_, _, _, _, _)
\* the rest of the while loop of substitute_paths once path i gave r
substitute_paths_next(paths, m, i, old_paths, r) ==
    new_leaf(r) \o substitute_paths_loop(paths, m, i + 1, old_paths \cup new_old_paths(r))

substitute_paths_loop(paths, m, i, old_paths) ==
    IF i > Len(paths) THEN <<>>
    ELSE substitute_paths_next(paths, m, i, old_paths,
            IF \E o \in old_paths : starts_with(paths[i], o)
            THEN NotSubstituted
            ELSE path_substitute(paths[i], m))

\* Path.substitute_paths: the new leaf paths
substitute_paths(paths, m) == substitute_paths_loop(paths, m, 1, {})

\* ''.join of the texts of the leaves
joined_text(paths) == Concat([i \in 1..Len(paths) |-> value(paths[i]).text])

\* the text Fact.substitute hands to kb.parse: the joined texts of the new leaves
substituted_text(fact, m) == joined_text(substitute_paths(get_all_paths(fact), m))

\* Fact.substitute raises (ParseError) when the joined text does not parse
substitute_raises(fact, m) == ~parses(substituted_text(fact, m))

\* Fact.substitute: the fact parsed from the joined text
substitute(fact, m) == substituted_text(fact, m)

(***************************************************************************)
(* FactSet (syntreenet/factset.py).  The tree is a function from the       *)
(* location of a node (the edges from the root) to the keys of its         *)
(* logic_children in dict order; an edge is the dict (logic "L" or         *)
(* nonlogic "N") and the key.                                              *)
(***************************************************************************)
Edge(kind, path) == [kind |-> kind, key |-> PathKey(path)]

IsPrefix(p, s) == Len(p) <= Len(s) /\ SubSeq(s, 1, Len(p)) = p

EmptyTree == (<<>> :> <<>>)

\* the order of the logic children once the key is set: a new key comes last
child_order(order, kind, key) ==
    IF kind = "L" /\ \A i \in 1..Len(order) : order[i] # key
    THEN Append(order, key)
    ELSE order

set_child_at(t, parent, loc, order) ==
    [l \in {x \in DOMAIN t : ~IsPrefix(loc, x)} \cup {loc} |->
        IF l = loc THEN <<>> ELSE IF l = parent THEN order ELSE t[l]]

\* dict[path] = SSNode(...): a fresh childless node; an old node under the
\* key, and all below it, is no longer reachable; the key keeps its position
SetChild(t, parent, kind, path) ==
    set_child_at(t, parent, Append(parent, Edge(kind, path)),
                 child_order(t[parent], kind, PathKey(path)))

\* the dict a path is put in: logic_children when it can be a variable
EdgeKind(path) == IF can_be_var(path) THEN "L" ELSE "N"

\* a variable-range path that is not a leaf has its sub-tree below it
has_subtree(path) == can_be_var(path) /\ ~is_leaf(path)

RECURSIVE create_paths(_, _, _)
RECURSIVE create_paths_loop(_, _, _, _)
\* BaseSSNode._create_paths, from index i with the loop variable parent: the
\* node of paths[i] is put under parent; a node with a sub-tree gets the
\* paths after the sub-tree created below it and parent stays, any other node
\* becomes parent
create_paths_loop(t, parent, paths, i) ==
    IF i > Len(paths) THEN t
    ELSE create_paths_loop(
            IF has_subtree(paths[i])
            THEN create_paths(SetChild(t, parent, "L", paths[i]),
                              Append(parent, Edge("L", paths[i])),
                              paths_after(paths[i], paths))
            ELSE SetChild(t, parent, EdgeKind(paths[i]), paths[i]),
            IF has_subtree(paths[i]) THEN parent
            ELSE Append(parent, Edge(EdgeKind(paths[i]), paths[i])),
            paths, i + 1)

create_paths(t, self, paths) == create_paths_loop(t, self, paths, 1)

\* the node follow_paths looks up for a path: a path that can be a variable in
\* parent.logic_children, any other path in self.nonlogic_children
followed_node(self, parent, path) ==
    IF can_be_var(path) THEN Append(parent, Edge("L", path))
    ELSE Append(self, Edge("N", path))

RECURSIVE follow_paths(_, _, _)
RECURSIVE follow_paths_loop(_, _, _, _, _)
RECURSIVE follow_paths_found(_, _, _, _, _, _)
\* BaseSSNode.follow_paths, from index i with the loop variable parent, when
\* the node of paths[i] exists
follow_paths_found(t, self, parent, paths, i, node) ==
    follow_paths_loop(
        IF has_subtree(paths[i]) THEN follow_paths(t, node, paths_after(paths[i], paths))
        ELSE t,
        self,
        IF has_subtree(paths[i]) THEN parent ELSE node,
        paths, i + 1)

\* BaseSSNode.follow_paths, from index i with the loop variable parent
follow_paths_loop(t, self, parent, paths, i) ==
    IF i > Len(paths) THEN t
    ELSE IF followed_node(self, parent, paths[i]) \notin DOMAIN t
         THEN create_paths(t, parent, SubSeq(paths, i, Len(paths)))
         ELSE follow_paths_found(t, self, parent, paths, i,
                                 followed_node(self, parent, paths[i]))

follow_paths(t, self, paths) == follow_paths_loop(t, self, self, paths, 1)

\* FactSet.add_fact
add_fact(t, fact) == follow_paths(t, <<>>, get_all_paths(fact))

RECURSIVE query_paths_rebind(_, _, _, _)
\* a query_paths that binds a variable again at every occurrence
query_paths_rebind(t, self, paths, matching) ==
    IF paths = <<>> THEN <<matching>>
    ELSE IF is_var(Head(paths)) /\ t[self] # <<>>
         THEN query_paths_rebind(t, Append(self, [kind |-> "L", key |-> t[self][1]]),
                                 Tail(paths),
                                 setitem(matching, value(Head(paths)), KeyValue(t[self][1])))
         ELSE IF Append(self, Edge("N", Head(paths))) \in DOMAIN t
         THEN query_paths_rebind(t, Append(self, Edge("N", Head(paths))), Tail(paths), matching)
         ELSE IF Append(self, Edge("L", Head(paths))) \in DOMAIN t
         THEN query_paths_rebind(t, Append(self, Edge("L", Head(paths))), Tail(paths), matching)
         ELSE <<>>

RECURSIVE query_paths(_, _, _, _)
RECURSIVE query_child(_, _, _, _, _)
\* the end of query_paths: nonlogic_children.get(path), then
\* logic_children.get(path), and the query goes on in the node found
query_child(t, self, path, rest, matching) ==
    IF Append(self, Edge("N", path)) \in DOMAIN t
    THEN query_paths(t, Append(self, Edge("N", path)), rest, matching)
    ELSE IF Append(self, Edge("L", path)) \in DOMAIN t
    THEN query_paths(t, Append(self, Edge("L", path)), rest, matching)
    ELSE <<>>

\* BaseSSNode.query_paths: the matchings appended to the response, in order.
\* On an unbound variable the loop over logic_children returns inside its
\* first iteration; a bound variable is substituted.
query_paths(t, self, paths, matching) ==
    IF paths = <<>> THEN <<matching>>
    ELSE IF is_var(Head(paths)) /\ ~contains(matching, value(Head(paths))) /\ t[self] # <<>>
         THEN query_paths(t, Append(self, [kind |-> "L", key |-> t[self][1]]), Tail(paths),
                          setitem(matching, value(Head(paths)), KeyValue(t[self][1])))
         ELSE query_child(t, self,
                          IF is_var(Head(paths)) /\ contains(matching, value(Head(paths)))
                          THEN path_substitute(Head(paths), matching).path
                          ELSE Head(paths),
                          Tail(paths), matching)

\* FactSet.ask_fact
ask_fact(t, fact) == query_paths(t, <<>>, get_leaf_paths(fact), EMPTY_MATCHING)

\* an ask_fact that goes on with the response list of the call before
ask_response_kept(response, t, fact) == response \o ask_fact(t, fact)

\* fset.response after ask_fact, given what it was before: the list is set
\* to [] and query_paths appends to it
ask_response(response, t, fact) == <<>> \o ask_fact(t, fact)

(***************************************************************************)
(* Matching and Fact operations the condition index uses (grammar.py)      *)
(***************************************************************************)
\* make_var
make_var(n) == [name |-> "var", text |-> <<IF n = 1 THEN "__X1" ELSE "__X2">>]

\* Matching.invert
invert(m) == [i \in 1..Len(m) |-> <<m[i][2], m[i][1]>>]

\* Matching.get_real_matching: varmap.get(k) or k, for every key
get_real_matching(m, varmap) ==
    [i \in 1..Len(m) |->
        <<IF contains(varmap, m[i][1]) THEN get(varmap, m[i][1]) ELSE m[i][1], m[i][2]>>]

RECURSIVE normalize_varmap(_, _, _, _)
\* the loop of Fact.normalize over the leaf paths
normalize_varmap(paths, i, varmap, n) ==
    IF i > Len(paths) THEN varmap
    ELSE IF is_var(paths[i]) /\ ~contains(varmap, value(paths[i]))
         THEN normalize_varmap(paths, i + 1, setitem(varmap, value(paths[i]), make_var(n)), n + 1)
         ELSE normalize_varmap(paths, i + 1, varmap, n)

\* Fact.normalize, given the variable map: the inverted map and the normalized
\* fact; it raises when Fact.substitute does
normalized(fact, varmap) ==
    [raises |-> substitute_raises(fact, varmap),
     varmap |-> invert(varmap),
     fact |-> substitute(fact, varmap)]

\* Fact.normalize
normalize(fact) ==
    normalized(fact, normalize_varmap(get_leaf_paths(fact), 1, EMPTY_MATCHING, 1))

(***************************************************************************)
(* Rules and activations                                                   *)
(***************************************************************************)
Rule(conditions, consecuences) == [conditions |-> conditions, consecuences |-> consecuences]

EmptyRule == Rule(<<>>, <<>>)

\* Activation(kind, precedent, data): precedent is the fact of a 'fact'
\* activation and the rule of a 'rule' activation; data holds matching,
\* condition and query_rules (absent in data reads as False)
Activation(kind, fact, rule, matching, condition, query_rules) ==
    [kind |-> kind, fact |-> fact, rule |-> rule, matching |-> matching,
     condition |-> condition, query_rules |-> query_rules]

(***************************************************************************)
(* CondSet / ConsSet: the tree of conditions.  A node is located by the    *)
(* keys of the paths from the root (the children dicts); the tree maps a   *)
(* node to the conditions of its endnode, <<>> when it has none.           *)
(* Fact.normalize leaves no variable in the paths it returns (the          *)
(* substituted leaves are dropped by substitute_paths), so var_child and   *)
(* var_children stay empty and only children are followed.                 *)
(***************************************************************************)
EmptyCondSet == (<<>> :> <<>>)

\* _follow_paths then _create_paths: the node of the last path, with the nodes
\* that were missing on the way
create_cond_paths(d, loc) ==
    [l \in DOMAIN d \cup {SubSeq(loc, 1, k) : k \in 0..Len(loc)} |->
        IF l \in DOMAIN d THEN d[l] ELSE <<>>]

\* the keys of the paths of a condition, from the root to its node
cond_location(paths) == [i \in 1..Len(paths) |-> PathKey(paths[i])]

\* the endnode of the node gets (condition, varmap, rule)
add_end(d, loc, entry) == [create_cond_paths(d, loc) EXCEPT ![loc] = Append(@, entry)]

\* the body of the loop of add_rule for one condition (or consequence), given
\* what normalize returned
add_condition(d, cond, rule, n) ==
    add_end(d, cond_location(get_leaf_paths(n.fact)), <<cond, n.varmap, rule>>)

RECURSIVE add_rule_loop(_, _, _, _)
RECURSIVE add_rule_next(_, _, _, _, _)
add_rule_next(d, sentences, rule, i, n) ==
    IF n.raises THEN [tree |-> d, raised |-> TRUE]
    ELSE add_rule_loop(add_condition(d, sentences[i], rule, n), sentences, rule, i + 1)

\* add_rule: [tree, raised]; on a ParseError the sentences before the failing
\* one are in the tree
add_rule_loop(d, sentences, rule, i) ==
    IF i > Len(sentences) THEN [tree |-> d, raised |-> FALSE]
    ELSE add_rule_next(d, sentences, rule, i, normalize(sentences[i]))

\* CondSet.add_rule indexes the conditions, ConsSet.add_rule the consequences
add_rule(d, sentences, rule) == add_rule_loop(d, sentences, rule, 1)

\* the place of a leaf path in a fact: arg, pred, v_obj, ext
PathPos(key) ==
    LET n == key.names[2]
    IN IF n = "arg" THEN 1 ELSE IF n = "pred" THEN 2 ELSE IF n = "v_obj" THEN 3 ELSE 4

\* Path.can_follow, the ordering hint of the grammar: a path follows the path
\* right before it in the fact
can_follow(path, nodekey) == PathPos(PathKey(path)) = PathPos(nodekey) + 1

\* EndNode.add_matching: one activation per (condition, varmap, rule)
add_matching(conditions, matching) ==
    [i \in 1..Len(conditions) |->
        Activation("rule", EMPTY_FACT, conditions[i][3],
                   get_real_matching(matching, conditions[i][2]), conditions[i][1], FALSE)]

\* get_parents: the node and the nodes above it, up to the root
get_parents(self) == [k \in 1..(Len(self) + 1) |-> SubSeq(self, 1, Len(self) + 1 - k)]

\* the path is tried under the node: a node with a path when the path can
\* follow it, the root in the first call only
follows(path, node, first) ==
    IF node = <<>> THEN first ELSE can_follow(path, node[Len(node)])

RECURSIVE propagate(_, _, _, _, _)
RECURSIVE propagate_under(_, _, _, _, _)
\* the loop of propagate over the visited nodes, for the first path
propagate_under(d, visited, paths, matching, first) ==
    Concat([k \in 1..Len(visited) |->
        IF /\ follows(Head(paths), visited[k], first)
           /\ Append(visited[k], PathKey(Head(paths))) \in DOMAIN d
        THEN propagate(d, Append(visited[k], PathKey(Head(paths))), Tail(paths),
                       matching, FALSE)
        ELSE <<>>])

\* ParentNode.propagate: the activations appended, in order.  The children of
\* every node on the way to the root that the path can follow are tried, then
\* the endnode of this node produces its activations, whatever paths are left.
propagate(d, self, paths, matching, first) ==
    (IF paths = <<>> THEN <<>>
     ELSE propagate_under(d, get_parents(self), paths, matching, first))
    \o (IF d[self] # <<>> THEN add_matching(d[self], matching) ELSE <<>>)

(***************************************************************************)
(* KnowledgeBase (kbase.py).  The operations work on a record of the       *)
(* fields of the knowledge base; status is "ok" while no call has raised,  *)
(* "raised" when the last step raised, "running" when a run was cut short. *)
(***************************************************************************)
EmptyKB ==
    [fset |-> EmptyTree, dset |-> EmptyCondSet, sset |-> EmptyCondSet,
     activations |-> <<>>, processing |-> FALSE, counter |-> 0,
     querying_rules |-> TRUE, seen_rules |-> {}, added |-> {}, status |-> "ok"]

\* a sentence handed to tell, after kb.parse: a fact, a rule or the removal of a fact
Sentence(kind, fact, rule) == [kind |-> kind, fact |-> fact, rule |-> rule]

\* the activation tell builds (tell, _deal_with_told_rule_tree)
told_activation(kb, s) ==
    IF s.kind = "rule"
    THEN Activation("rule", EMPTY_FACT, s.rule, EMPTY_MATCHING, EMPTY_FACT, TRUE)
    ELSE IF s.kind = "fact"
    THEN Activation("fact", s.fact, EmptyRule, EMPTY_MATCHING, EMPTY_FACT, kb.querying_rules)
    ELSE Activation("rm", s.fact, EmptyRule, EMPTY_MATCHING, EMPTY_FACT, FALSE)

\* process, up to its while loop: it takes the latch unless it is taken
process_enter(kb) ==
    IF kb.processing THEN kb ELSE [kb EXCEPT !.processing = TRUE, !.seen_rules = {}]

\* tell up to the while loop of process: the activation is appended and
\* process is called
tell_enter(kb, s) ==
    process_enter([kb EXCEPT !.activations = Append(@, told_activation(kb, s))])

\* str(matching): the texts of its keys and values, in order
matching_str(m) == [i \in 1..Len(m) |-> <<m[i][1].text, m[i][2].text>>]

\* rulestr = str(rule) + str(a) + str(cond)
rulestr(rule, answer_, cond) == <<rule, matching_str(answer_), cond>>

\* the result of _new_rule so far, with one more activation
with_activation(r, rule, answer_, cond) ==
    [acts |-> Append(r.acts, Activation("rule", EMPTY_FACT, rule, answer_, cond, TRUE)),
     seen |-> r.seen \cup {rulestr(rule, answer_, cond)}]

RECURSIVE new_rule_answers_all(_, _, _, _, _)
\* the loop over the answers without the test of seen_rules
new_rule_answers_all(rule, cond, answers, i, r) ==
    IF i > Len(answers) THEN r
    ELSE new_rule_answers_all(rule, cond, answers, i + 1,
            with_activation(r, rule, answers[i], cond))

RECURSIVE new_rule_answers(_, _, _, _, _)
\* the loop over the answers of one condition in _new_rule / _new_facts; r is
\* [acts |-> the activations appended, seen |-> seen_rules]
new_rule_answers(rule, cond, answers, i, r) ==
    IF i > Len(answers) THEN r
    ELSE new_rule_answers(rule, cond, answers, i + 1,
            IF rulestr(rule, answers[i], cond) \in r.seen THEN r
            ELSE with_activation(r, rule, answers[i], cond))

RECURSIVE new_rule_loop(_, _, _, _)
\* the loop over the conditions of the rule
new_rule_loop(t, rule, i, r) ==
    IF i > Len(rule.conditions) THEN r
    ELSE new_rule_loop(t, rule, i + 1,
            new_rule_answers(rule, rule.conditions[i], ask_fact(t, rule.conditions[i]), 1, r))

queue_activations(kb, r) == [kb EXCEPT !.activations = @ \o r.acts, !.seen_rules = r.seen]

\* KnowledgeBase._new_rule: the rule is matched against the stored facts
new_rule(kb, rule) ==
    queue_activations(kb, new_rule_loop(kb.fset, rule, 1,
                                        [acts |-> <<>>, seen |-> kb.seen_rules]))

\* KnowledgeBase._new_facts: the same loop, on the rule of the activation
new_facts(kb, act) == new_rule(kb, act.rule)

\* the conditions _new_rule_activation keeps: all but the one of the activation
other_conditions(act) ==
    SelectSeqIdx(act.rule.conditions,
                 {i \in 1..Len(act.rule.conditions) : act.rule.conditions[i] # act.condition}, 1)

substitute_all(facts, m) == [i \in 1..Len(facts) |-> substitute(facts[i], m)]

some_substitute_raises(facts, m) == \E i \in 1..Len(facts) : substitute_raises(facts[i], m)

\* the end of the 'rule' branch for a new rule: sset.add_rule gave c; then
\* _new_rule when the activation asks for it
rule_indexed(kb, rule, d, c) ==
    IF c.raised THEN [kb EXCEPT !.dset = d.tree, !.sset = c.tree, !.status = "raised"]
    ELSE IF kb.querying_rules
    THEN new_rule([kb EXCEPT !.dset = d.tree, !.sset = c.tree], rule)
    ELSE [kb EXCEPT !.dset = d.tree, !.sset = c.tree]

\* dset.add_rule gave d; then sset.add_rule
conditions_indexed(kb, rule, d) ==
    IF d.raised THEN [kb EXCEPT !.dset = d.tree, !.status = "raised"]
    ELSE rule_indexed(kb, rule, d, add_rule(kb.sset, rule.consecuences, rule))

\* the new rule is put in the two trees
index_rule(kb, rule) == conditions_indexed(kb, rule, add_rule(kb.dset, rule.conditions, rule))

\* KnowledgeBase._new_rule_activation followed by the call of _new_rule
new_rule_activation(kb, act) ==
    IF \/ some_substitute_raises(other_conditions(act), act.matching)
       \/ some_substitute_raises(act.rule.consecuences, act.matching)
    THEN [kb EXCEPT !.status = "raised"]
    ELSE index_rule(kb, Rule(substitute_all(other_conditions(act), act.matching),
                             substitute_all(act.rule.consecuences, act.matching)))

\* the 'fact' activations of the consequences, the last consequence first
fact_activations_reversed(cons, query_rules) ==
    [i \in 1..Len(cons) |->
        Activation("fact", cons[Len(cons) + 1 - i], EmptyRule, EMPTY_MATCHING, EMPTY_FACT,
                   query_rules)]

\* the 'fact' activations of the consequences
fact_activations(cons, query_rules) ==
    [i \in 1..Len(cons) |->
        Activation("fact", cons[i], EmptyRule, EMPTY_MATCHING, EMPTY_FACT, query_rules)]

\* the consequences are queued; then _new_facts when the activation asks for it
facts_queued(kb, act) == IF kb.querying_rules THEN new_facts(kb, act) ELSE kb

\* KnowledgeBase._new_fact_activations followed by the call of _new_facts
new_fact_activations(kb, act) ==
    IF some_substitute_raises(act.rule.consecuences, act.matching)
    THEN [kb EXCEPT !.status = "raised"]
    ELSE facts_queued(
            [kb EXCEPT !.activations =
                @ \o fact_activations(substitute_all(act.rule.consecuences, act.matching),
                                      kb.querying_rules)],
            act)

\* a 'fact' branch without the presence check
process_fact_again(kb, fact) ==
    [kb EXCEPT !.activations = @ \o propagate(kb.dset, <<>>, get_leaf_paths(fact),
                                               EMPTY_MATCHING, TRUE),
               !.fset = add_fact(@, fact),
               !.added = @ \cup {fact}]

\* the 'fact' branch of process: _add_fact (dset.propagate), then fset.add_fact
process_fact(kb, fact) ==
    IF ask_fact(kb.fset, fact) # <<>> THEN kb
    ELSE [kb EXCEPT !.activations = @ \o propagate(kb.dset, <<>>, get_leaf_paths(fact),
                                                   EMPTY_MATCHING, TRUE),
                    !.fset = add_fact(@, fact),
                    !.added = @ \cup {fact}]

\* the dispatch of process on the kind of the activation.  FactSet has no
\* rm_fact, so the 'rm' branch raises.
process_activation(kb, act) ==
    IF act.kind = "fact" THEN process_fact(kb, act.fact)
    ELSE IF act.kind = "rule"
    THEN IF Len(act.rule.conditions) > 1 \/ act.condition = EMPTY_FACT
         THEN new_rule_activation(kb, act)
         ELSE new_fact_activations(kb, act)
    ELSE [kb EXCEPT !.status = "raised"]

\* a turn of the loop that takes the activation at the back of the queue
process_step_last(kb) ==
    process_activation([kb EXCEPT !.activations = SubSeq(@, 1, Len(@) - 1),
                                  !.querying_rules = kb.activations[Len(kb.activations)].query_rules,
                                  !.counter = IF @ < MaxCounter THEN @ + 1 ELSE @],
                       kb.activations[Len(kb.activations)])

\* a turn of the loop that does not count the activation it takes
process_step_uncounted(kb) ==
    process_activation([kb EXCEPT !.activations = Tail(@),
                                  !.querying_rules = Head(kb.activations).query_rules],
                       Head(kb.activations))

\* one turn of the while loop of process.  An exception leaves the loop and
\* process, with processing still set.
process_step(kb) ==
    process_activation([kb EXCEPT !.activations = Tail(@),
                                  !.querying_rules = Head(kb.activations).query_rules,
                                  !.counter = IF @ < MaxCounter THEN @ + 1 ELSE @],
                       Head(kb.activations))

\* the end of process
process_exit(kb) == [kb EXCEPT !.processing = FALSE]

RECURSIVE run_process(_, _)
RECURSIVE run_stepped(_, _)
run_stepped(n, left) == IF n.status = "raised" THEN n ELSE run_process(n, left)

\* the while loop of process run to its end, for at most so many left
run_process(kb, left) ==
    IF kb.activations = <<>> THEN process_exit(kb)
    ELSE IF left = 0 THEN [kb EXCEPT !.status = "running"]
    ELSE run_stepped(process_step(kb), left - 1)

\* tell(s) as one call; with the latch taken process returns at once, and
\* nothing is told after a call that raised or did not return
run_tell(kb, s) ==
    IF kb.status # "ok" THEN kb
    ELSE IF kb.processing THEN tell_enter(kb, s)
    ELSE run_process(tell_enter(kb, s), MaxTurns)

RECURSIVE run_tells(_, _, _)
run_tells(kb, sentences, i) ==
    IF i > Len(sentences) THEN kb
    ELSE run_tells(run_tell(kb, sentences[i]), sentences, i + 1)

\* a fresh knowledge base told the sentences in order
run_all(sentences) == run_tells(EmptyKB, sentences, 1)

(***************************************************************************)
(* query and ask (kbase.py).  What a call returns is a record: kind is     *)
(* "false" or "true" for the two booleans query returns, "matchings" for a *)
(* list of matchings, "fulfillments" for the list goal returns, "raised"   *)
(* when the call raised and "none" when no call has returned anything.     *)
(***************************************************************************)
Result(kind, matchings, fulfillments) ==
    [kind |-> kind, matchings |-> matchings, fulfillments |-> fulfillments]

NoResult == Result("none", <<>>, <<>>)

Raised == Result("raised", <<>>, <<>>)

\* KnowledgeBase.ask: the list FactSet.ask_fact returns
ask(kb, q) == ask_fact(kb.fset, q)

\* a query that answers true for every response of one matching
query_response_single(response) ==
    IF response = <<>> THEN Result("false", <<>>, <<>>)
    ELSE IF Len(response) = 1 THEN Result("true", <<>>, <<>>)
    ELSE Result("matchings", response, <<>>)

\* the end of query, given the response of ask
query_response(response) ==
    IF response = <<>> THEN Result("false", <<>>, <<>>)
    ELSE IF Len(response) = 1 /\ response[1] = EMPTY_MATCHING THEN Result("true", <<>>, <<>>)
    ELSE Result("matchings", response, <<>>)

\* KnowledgeBase.query: parse, from_parse_tree, ask
query(kb, text) == IF parses(text) THEN query_response(ask(kb, text)) ELSE Raised

(***************************************************************************)
(* goal and query_goal (kbase.py).  ConsSet.propagate walks the tree of    *)
(* consequences: at each node the children of the nodes already traversed  *)
(* that the path can follow are tried, and when the remaining path list is *)
(* empty and the node has an endnode, the endnode produces a backtrack     *)
(* record (rule, matching) per entry.                                      *)
(***************************************************************************)
RECURSIVE cons_propagate(_, _, _, _, _)
RECURSIVE cons_propagate_under(_, _, _, _, _)
\* the nodes already traversed, tried for the first of the remaining paths
cons_propagate_under(d, visited, paths, matching, first) ==
    Concat([k \in 1..Len(visited) |->
        IF /\ follows(Head(paths), visited[k], first)
           /\ Append(visited[k], PathKey(Head(paths))) \in DOMAIN d
        THEN cons_propagate(d, Append(visited[k], PathKey(Head(paths))), Tail(paths),
                            matching, FALSE)
        ELSE <<>>])

\* ConsSet.propagate: the backtracks, in the order they are collected
cons_propagate(d, self, paths, matching, first) ==
    IF paths = <<>>
    THEN (IF d[self] # <<>> THEN add_matching(d[self], matching) ELSE <<>>)
    ELSE cons_propagate_under(d, get_parents(self), paths, matching, first)

\* sset.propagate(paths, matching): the backtracks, each with its rule
\* (precedent) and its matching
backtracks(kb, fact) ==
    cons_propagate(kb.sset, <<>>, get_leaf_paths(fact), EMPTY_MATCHING, TRUE)

\* the conditions of the rule of a backtrack, substituted through its matching
backtrack_conds(bt) == substitute_all(bt.rule.conditions, bt.matching)

\* the conditions ask has no answer for, in order
needed_conditions(kb, conds) ==
    SelectSeqIdx(conds, {i \in 1..Len(conds) : ask(kb, conds[i]) = <<>>}, 1)

\* the answers of the other conditions, in the order the two loops over known
\* go through them
known_answers(kb, conds) == Concat([i \in 1..Len(conds) |-> ask(kb, conds[i])])

\* the fulfillments of one backtrack: the needed conditions once per known
\* answer, substituted through it, or as they are when nothing is known
fulfillments_of(needed, answers) ==
    IF answers = <<>> THEN <<needed>>
    ELSE [j \in 1..Len(answers) |-> substitute_all(needed, answers[j])]

fulfillments_raise(needed, answers) ==
    \E j \in 1..Len(answers) : some_substitute_raises(needed, answers[j])

\* the body of the loop of query_goal over the backtracks, given the
\* substituted conditions
backtrack_fulfillments(kb, conds) ==
    fulfillments_of(needed_conditions(kb, conds), known_answers(kb, conds))

\* a substitute of the body of the loop raises
backtrack_raises(kb, bt) ==
    \/ some_substitute_raises(bt.rule.conditions, bt.matching)
    \/ fulfillments_raise(needed_conditions(kb, backtrack_conds(bt)),
                          known_answers(kb, backtrack_conds(bt)))

\* a query_goal whose "nothing is known" branch also runs once after the loop
\* over the backtracks, with nothing needed
goal_result_after(kb, bts) ==
    IF \E i \in 1..Len(bts) : backtrack_raises(kb, bts[i]) THEN Raised
    ELSE Result("fulfillments", <<>>,
                Concat([i \in 1..Len(bts) |-> backtrack_fulfillments(kb, backtrack_conds(bts[i]))])
                \o << <<>> >>)

\* query_goal, given the backtracks
goal_result(kb, bts) ==
    IF \E i \in 1..Len(bts) : backtrack_raises(kb, bts[i]) THEN Raised
    ELSE Result("fulfillments", <<>>,
                Concat([i \in 1..Len(bts) |-> backtrack_fulfillments(kb, backtrack_conds(bts[i]))]))

\* KnowledgeBase.query_goal
query_goal(kb, fact) == goal_result(kb, backtracks(kb, fact))

\* KnowledgeBase.goal: parse, from_parse_tree, query_goal
goal(kb, text) == IF parses(text) THEN query_goal(kb, text) ELSE Raised

\* a tell that queues its activation before the text is parsed
tell_unparsed(kb, text) ==
    IF parses(text) THEN tell_enter(kb, Sentence("fact", text, EmptyRule))
    ELSE [tell_enter(kb, Sentence("fact", text, EmptyRule)) EXCEPT !.status = "raised"]

\* KnowledgeBase.tell called with the text of a fact: parse comes first
tell(kb, text) ==
    IF parses(text) THEN tell_enter(kb, Sentence("fact", text, EmptyRule))
    ELSE [kb EXCEPT !.status = "raised"]

(***************************************************************************)
(* The inputs                                                              *)
(***************************************************************************)
Texts(terms) ==
    {<<s, p, o>> : s \in terms, p \in Preds, o \in terms}
    \cup {<<s, p, o, e>> : s \in terms, p \in Preds, o \in terms, e \in terms}

\* the facts without variables
GroundFacts == Texts(Words)

\* the query facts: any term may be a variable
Queries == Texts(Words \cup VarToks)

\* the facts add_fact is called with: facts that share their first paths, a
\* fact that continues another, facts that differ in the first path
AddedFacts ==
    { <<"a", "is", "b">>, <<"a", "is", "a">>, <<"b", "is", "a">>, <<"b", "is", "b">>,
      <<"a", "is", "b", "a">>, <<"a", "is", "b", "b">> }

\* the queries the ask action is called with: ground (three and four tokens),
\* a variable at a leaf, at the interior node, two variables, a repeated variable
AskedQueries ==
    { <<"a", "is", "b">>, <<"a", "is", "b", "a">>, <<"X1", "is", "b">>,
      <<"a", "is", "X1">>, <<"X1", "is", "X2">>, <<"X1", "is", "b", "X1">>,
      <<"b", "is", "X1", "X2">> }

\* texts the grammar does not accept: too short, too long, without the verb,
\* with a token that is no term
BadTexts ==
    { <<"a", "is">>, <<"a", "b", "a">>, <<"a", "is", "is">>, <<"a", "is", "b", "a", "b">> }

\* the result of a Matching operation: the operation, its key and value
\* arguments (setitem), the Matching returned, and whether it raised
Output(op, key, val, value_, raised) ==
    [op |-> op, key |-> key, val |-> val, value |-> value_, raised |-> raised]

NoOutput == Output("none", NoSegment, NoSegment, EMPTY_MATCHING, FALSE)

\* a call of Fact.normalize: the fact, whether the call raised, the matching
\* and the normalized fact it returned; then the fact that substituting the
\* matching into the normalized fact gave (op "substitute")
Normalized(op, fact, raises, varmap, normal, back) ==
    [op |-> op, fact |-> fact, raises |-> raises, varmap |-> varmap, normal |-> normal,
     back |-> back]

NoNormalized == Normalized("none", EMPTY_FACT, FALSE, EMPTY_MATCHING, EMPTY_FACT, EMPTY_FACT)

\* the facts goal is called with: consequences of the rules, a fact that is
\* the consequence of no rule, and a fact that continues a consequence
Goals ==
    { <<"a", "is", "a">>, <<"a", "is", "b">>, <<"b", "is", "b">>, <<"b", "is", "a">>,
      <<"a", "is", "b", "a">> }

\* the facts tell is called with
ToldFacts ==
    { <<"a", "is", "b">>, <<"a", "is", "a">>, <<"b", "is", "b">>, <<"a", "is", "b", "a">> }

\* the rules tell is called with: rules without variables, of one condition and
\* of two, of one consequence and of two, and rules with a variable: on two
\* of them normalize raises, on the next it does not; a rule whose two
\* conditions can both be in the FactSet, and a rule whose first condition is
\* indexed before normalize raises on the second
ToldRules ==
    { Rule(<< <<"a", "is", "b">> >>, << <<"a", "is", "a">> >>),
      Rule(<< <<"a", "is", "a">> >>, << <<"a", "is", "b">> >>),
      Rule(<< <<"a", "is", "b">> >>, << <<"b", "is", "a">> >>),
      Rule(<< <<"a", "is", "b">>, <<"b", "is", "a">> >>, << <<"b", "is", "b">> >>),
      Rule(<< <<"X1", "is", "a">> >>, << <<"X1", "is", "b">> >>),
      Rule(<< <<"a", "is", "X1">>, <<"X1", "is", "b">> >>, << <<"a", "is", "b">> >>),
      Rule(<< <<"a", "is", "b", "a">> >>, << <<"b", "is", "b">>, <<"b", "is", "a">> >>),
      Rule(<< <<"a", "is", "X1", "a">> >>, << <<"b", "is", "b">> >>),
      Rule(<< <<"a", "is", "b">>, <<"b", "is", "b">> >>, << <<"b", "is", "b">> >>),
      Rule(<< <<"a", "is", "b">>, <<"X1", "is", "a">> >>, << <<"X1", "is", "b">> >>) }

\* the facts tell is asked to remove
RemovedFacts == { <<"a", "is", "b">> }

Sentences ==
    {Sentence("fact", f, EmptyRule) : f \in ToldFacts}
    \cup {Sentence("rule", EMPTY_FACT, r) : r \in ToldRules}
    \cup {Sentence("rm", f, EmptyRule) : f \in RemovedFacts}

(***************************************************************************)
(* The state after KnowledgeBase.__init__                                  *)
(***************************************************************************)
\* the knowledge base and the histories of its calls
InitKB ==
    /\ fset = EmptyKB.fset
    /\ dset = EmptyKB.dset
    /\ sset = EmptyKB.sset
    /\ activations = EmptyKB.activations
    /\ processing = EmptyKB.processing
    /\ counter = EmptyKB.counter
    /\ querying_rules = EmptyKB.querying_rules
    /\ seen_rules = EmptyKB.seen_rules
    /\ pc = "idle"
    /\ told = <<>>
    /\ turns = {}
    /\ added = {}
    /\ nadds = 0
    /\ lastop = <<"init", EMPTY_FACT>>
    /\ answer = <<>>
    /\ result = NoResult
    /\ mout = NoOutput
    /\ nout = NoNormalized

Init ==
    /\ InitKB
    /\ m1 = EMPTY_MATCHING
    /\ m2 = EMPTY_MATCHING
    /\ m3 = EMPTY_MATCHING

(***************************************************************************)
(* The fact index on its own: kb.fset.add_fact and kb.fset.ask_fact        *)
(***************************************************************************)
AddFact(f) ==
    /\ nadds < MaxAdds
    /\ fset' = add_fact(fset, f)
    /\ added' = added \cup {f}
    /\ nadds' = nadds + 1
    /\ lastop' = <<"add", f>>
    /\ UNCHANGED <<answer, result>>
    /\ UNCHANGED kbvars
    /\ UNCHANGED mvars

AskFact(q) ==
    /\ answer' = ask_response(answer, fset, q)
    /\ lastop' = <<"ask", q>>
    /\ UNCHANGED <<fset, added, nadds, result>>
    /\ UNCHANGED kbvars
    /\ UNCHANGED mvars

FNext ==
    \/ \E f \in AddedFacts : AddFact(f)
    \/ \E q \in AskedQueries : AskFact(q)

FSpec == Init /\ [][FNext]_vars

(***************************************************************************)
(* Matching on its own: setitem, merge, invert and get_real_matching       *)
(* called on matchings with unique keys                                    *)
(***************************************************************************)
VarSeg(v) == [name |-> "var", text |-> <<v>>]

\* the segments the matchings are made of: variables of a query, a
\* normalized variable, words
MKeySegs == {VarSeg("X1"), VarSeg("__X1")}

MNewKeySegs == MKeySegs \cup {VarSeg("X2")}

MValSegs == {[name |-> "v_word", text |-> <<"a">>], [name |-> "v_word", text |-> <<"b">>],
             VarSeg("X1")}

\* the matchings over these segments, keys unique
Matchings ==
    {<<>>}
    \cup {<< <<k, v>> >> : k \in MKeySegs, v \in MValSegs}
    \cup {m \in {<< <<k1, v1>>, <<k2, v2>> >> :
                    k1 \in MKeySegs, k2 \in MKeySegs, v1 \in MValSegs, v2 \in MValSegs} :
             m[1][1] # m[2][1]}

MInit ==
    /\ InitKB
    /\ m1 \in Matchings
    /\ m2 \in Matchings
    /\ m3 \in {m \in Matchings : Len(m) <= 1}

\* what a Matching operation leaves alone: the operands and the knowledge base
MFrame ==
    /\ UNCHANGED <<m1, m2, m3, nout>>
    /\ UNCHANGED <<fset, added, nadds, lastop, answer, result>>
    /\ UNCHANGED kbvars

SetItem(key, val) ==
    /\ mout' = Output("setitem", key, val, setitem(m1, key, val), FALSE)
    /\ MFrame

Merge ==
    /\ mout' = Output("merge", NoSegment, NoSegment, merge(m1, m2).value, merge(m1, m2).raised)
    /\ MFrame

Invert ==
    /\ mout' = Output("invert", NoSegment, NoSegment, invert(m1), FALSE)
    /\ MFrame

GetRealMatching ==
    /\ mout' = Output("get_real_matching", NoSegment, NoSegment, get_real_matching(m1, m2), FALSE)
    /\ MFrame

MNext ==
    \/ \E key \in MNewKeySegs, val \in MValSegs : SetItem(key, val)
    \/ Merge
    \/ Invert
    \/ GetRealMatching

MSpec == MInit /\ [][MNext]_vars

(***************************************************************************)
(* Fact.normalize on its own, and Fact.substitute of the matching it       *)
(* returns into the fact it returns                                        *)
(***************************************************************************)
\* f.normalize(kb)
Normalize(f) ==
    /\ nout' = Normalized("normalize", f, normalize(f).raises,
                          IF normalize(f).raises THEN EMPTY_MATCHING ELSE normalize(f).varmap,
                          IF normalize(f).raises THEN EMPTY_FACT ELSE normalize(f).fact,
                          EMPTY_FACT)
    /\ UNCHANGED <<m1, m2, m3, mout>>
    /\ UNCHANGED <<fset, added, nadds, lastop, answer, result>>
    /\ UNCHANGED kbvars

\* normalized.substitute(varmap, kb), on what the last normalize returned
Denormalize ==
    /\ nout.op = "normalize"
    /\ ~nout.raises
    /\ nout' = [nout EXCEPT !.op = "substitute",
                            !.raises = substitute_raises(nout.normal, nout.varmap),
                            !.back = IF substitute_raises(nout.normal, nout.varmap)
                                     THEN EMPTY_FACT
                                     ELSE substitute(nout.normal, nout.varmap)]
    /\ UNCHANGED <<m1, m2, m3, mout>>
    /\ UNCHANGED <<fset, added, nadds, lastop, answer, result>>
    /\ UNCHANGED kbvars

NNext ==
    \/ \E f \in Queries : Normalize(f)
    \/ Denormalize

NSpec == Init /\ [][NNext]_vars

(***************************************************************************)
(* The knowledge base: tell runs process to its end before the next call;  *)
(* a step is one turn of the while loop of process                         *)
(***************************************************************************)
KB ==
    [fset |-> fset, dset |-> dset, sset |-> sset, activations |-> activations,
     processing |-> processing, counter |-> counter, querying_rules |-> querying_rules,
     seen_rules |-> seen_rules, added |-> added, status |-> "ok"]

\* what a turn of the while loop of process reads and writes, but for the counter
LoopState ==
    [fset |-> fset, dset |-> dset, sset |-> sset, activations |-> activations,
     querying_rules |-> querying_rules, seen_rules |-> seen_rules]

SetKB(n) ==
    /\ fset' = n.fset
    /\ dset' = n.dset
    /\ sset' = n.sset
    /\ activations' = n.activations
    /\ processing' = n.processing
    /\ counter' = n.counter
    /\ querying_rules' = n.querying_rules
    /\ seen_rules' = n.seen_rules
    /\ added' = n.added

\* tell(s), up to the while loop of process; with the latch taken process
\* returns at once and so does tell
Tell(s) ==
    /\ pc = "idle"
    /\ Len(told) < MaxTells
    /\ SetKB(tell_enter(KB, s))
    /\ pc' = IF processing THEN "idle" ELSE "loop"
    /\ told' = Append(told, s)
    /\ turns' = {}
    /\ lastop' = <<"tell", s.fact>>
    /\ result' = NoResult
    /\ UNCHANGED <<nadds, answer>>
    /\ UNCHANGED mvars

\* the state after a turn of the loop: an exception ends the call of tell
Stepped(n) ==
    /\ SetKB(n)
    /\ pc' = IF n.status = "raised" THEN "idle" ELSE "loop"

\* one turn of the while loop
Step ==
    /\ pc = "loop"
    /\ activations # <<>>
    /\ Stepped(process_step(KB))
    /\ turns' = turns \cup {LoopState}
    /\ UNCHANGED <<told, nadds, lastop, answer, result>>
    /\ UNCHANGED mvars

\* the queue is empty: process releases the latch and tell returns
Finish ==
    /\ pc = "loop"
    /\ activations = <<>>
    /\ SetKB(process_exit(KB))
    /\ pc' = "idle"
    /\ turns' = {}
    /\ UNCHANGED <<told, nadds, lastop, answer, result>>
    /\ UNCHANGED mvars

\* query(q) called when no call is running; nothing of the knowledge base is written
Query(q) ==
    /\ pc = "idle"
    /\ result' = query(KB, q)
    /\ lastop' = <<"query", q>>
    /\ UNCHANGED <<fset, added, nadds, answer>>
    /\ UNCHANGED kbvars
    /\ UNCHANGED mvars

\* goal(g) called when no call is running
Goal(g) ==
    /\ pc = "idle"
    /\ result' = goal(KB, g)
    /\ lastop' = <<"goal", g>>
    /\ UNCHANGED <<fset, added, nadds, answer>>
    /\ UNCHANGED kbvars
    /\ UNCHANGED mvars

\* tell called with a text kb.parse raises on: the call ends there
TellText(text) ==
    /\ pc = "idle"
    /\ SetKB(tell(KB, text))
    /\ pc' = IF tell(KB, text).status = "raised" \/ processing THEN "idle" ELSE "loop"
    /\ result' = IF tell(KB, text).status = "raised" THEN Raised ELSE NoResult
    /\ lastop' = <<"tell", text>>
    /\ turns' = {}
    /\ UNCHANGED <<told, nadds, answer>>
    /\ UNCHANGED mvars

Next ==
    \/ \E s \in Sentences : Tell(s)
    \/ Step
    \/ Finish

\* the knowledge base with all its calls: tell, query and goal
ANext ==
    \/ \E s \in Sentences : Tell(s)
    \/ Step
    \/ Finish
    \/ \E q \in AskedQueries \cup BadTexts : Query(q)
    \/ \E g \in Goals \cup BadTexts : Goal(g)
    \/ \E text \in BadTexts : TellText(text)

ASpec == Init /\ [][ANext]_vars

Spec == Init /\ [][Next]_vars

(***************************************************************************)
(* What the claims about the fact index speak of                           *)
(***************************************************************************)
\* the variables of a query in the order of their first appearance
FirstVars(q) ==
    SelectSeqIdx(q, {i \in 1..Len(q) : IsVarTok(q[i]) /\ \A j \in 1..(i - 1) : q[j] # q[i]}, 1)

FirstPos(q, v) == CHOOSE i \in 1..Len(q) : q[i] = v /\ \A j \in 1..(i - 1) : q[j] # v

\* the query with every variable replaced by the text the matching binds it to
Instance(q, m) ==
    [p \in 1..Len(q) |->
        IF IsVarTok(q[p]) /\ contains(m, VarSeg(q[p])) /\ Len(get(m, VarSeg(q[p])).text) = 1
        THEN get(m, VarSeg(q[p])).text[1]
        ELSE q[p]]

\* the ground fact g is an instance of the query q
Unifies(q, g) ==
    /\ Len(q) = Len(g)
    /\ \A p \in 1..Len(q) : IsVarTok(q[p]) \/ q[p] = g[p]
    /\ \A p1, p2 \in 1..Len(q) : (IsVarTok(q[p1]) /\ q[p1] = q[p2]) => g[p1] = g[p2]

HasVar(q) == \E p \in 1..Len(q) : IsVarTok(q[p])

Repeats(q) == \E p1, p2 \in 1..Len(q) : p1 # p2 /\ IsVarTok(q[p1]) /\ q[p1] = q[p2]

Present(t, f) == ask_fact(t, f) # <<>>

\* C3: add_fact never makes a fact that ask_fact found unreachable: a fact
\* present before a step is present after it
C3_Monotone ==
    [][\A f \in GroundFacts : Present(fset, f) => Present(fset', f)]_vars

\* C4: adding the fact that was added last leaves the tree as it is, and adding
\* again a fact added before drops no fact that was present
C4_Idempotent ==
    [][\A f \in added :
         (nadds' = nadds + 1 /\ lastop' = <<"add", f>>) =>
            /\ (lastop = <<"add", f>> => fset' = fset)
            /\ \A g \in GroundFacts : Present(fset, g) => Present(fset', g)]_vars

\* C5: a ground query is answered by exactly one empty matching when the fact
\* was added and by the empty list when it was not
C5_GroundExact ==
    \A f \in GroundFacts :
        ask_fact(fset, f) = IF f \in added THEN <<EMPTY_MATCHING>> ELSE <<>>

\* C6: every matching returned for a query with variables, substituted into the
\* query, gives a stored fact, and nothing is returned when no stored fact unifies
C6_Sound ==
    \A q \in {x \in Queries : HasVar(x)} :
        LET r == ask_fact(fset, q)
        IN /\ \A k \in 1..Len(r) : Instance(q, r[k]) \in added
           /\ (\A g \in added : ~Unifies(q, g)) => r = <<>>

\* C7: one matching is returned for every stored fact the query unifies with
\* (stated for the queries in which no variable occurs twice)
C7_Complete ==
    \A q \in {x \in Queries : HasVar(x) /\ ~Repeats(x)} :
        LET r == ask_fact(fset, q)
        IN \A g \in added :
            (Present(fset, g) /\ Unifies(q, g)) => \E k \in 1..Len(r) : Instance(q, r[k]) = g

\* C8: a matching binds the variables of the query in the order they appear in
\* it; a variable at the interior v_obj node is bound to the interior segment
\* of a stored fact, a variable at a leaf to the leaf segment of that fact
C8_Bindings ==
    \A q \in Queries :
        LET r == ask_fact(fset, q)
            vs == FirstVars(q)
        IN \A k \in 1..Len(r) :
            /\ Len(r[k]) = Len(vs)
            /\ \A i \in 1..Len(vs) :
                /\ r[k][i][1] = VarSeg(vs[i])
                /\ r[k][i][2].name = IF FirstPos(q, vs[i]) = 3 THEN "v_obj" ELSE "v_word"
            /\ \E g \in added :
                /\ Len(g) >= Len(q)
                /\ \A p \in 1..Len(q) : Instance(q, r[k])[p] = g[p]

C8_Witness ==
    /\ lastop = <<"ask", <<"X1", "is", "X2">>>>
    /\ answer = << << <<VarSeg("X1"), [name |-> "v_word", text |-> <<"b">>]>>,
                      <<VarSeg("X2"), [name |-> "v_obj", text |-> <<"a">>]>> >> >>

Stored(t) == {f \in GroundFacts : Present(t, f)}

\* the assignments of words to the variables
Assignments == [VarToks -> Words]

\* the fact with its variables replaced by the words assigned to them
Grounded(fact, sigma) ==
    [p \in 1..Len(fact) |-> IF fact[p] \in VarToks THEN sigma[fact[p]] ELSE fact[p]]

\* the rules told so far
TellsOfRules == {told[i].rule : i \in {j \in 1..Len(told) : told[j].kind = "rule"}}

\* every call of tell has returned without an exception
Returned == pc = "idle" /\ ~processing

\* the facts hold every consequence of the rule whose conditions they hold
Saturated(t, rule) ==
    \A sigma \in Assignments :
        (\A i \in 1..Len(rule.conditions) : Present(t, Grounded(rule.conditions[i], sigma)))
        => \A k \in 1..Len(rule.consecuences) : Present(t, Grounded(rule.consecuences[k], sigma))

\* C1: when process has returned, the stored facts hold every consequence of
\* every told rule whose conditions they satisfy
C1_Saturation == Returned => \A rule \in TellsOfRules : Saturated(fset, rule)

Permutations_(n) == {p \in [1..n -> 1..n] : \A i, j \in 1..n : p[i] = p[j] => i = j}

\* C2: the facts stored after the tells have returned are those stored after
\* the same tells made in any other order (when those return too)
C2_OrderIndependent ==
    Returned =>
        \A p \in Permutations_(Len(told)) :
            LET r == run_all([i \in 1..Len(told) |-> told[p[i]]])
            IN (r.status = "ok" /\ ~r.processing) => Stored(r.fset) = Stored(fset)

\* C10: a call of process comes to its end: what a turn of its loop does is a
\* function of the state of the knowledge base, so the loop is never twice in
\* one state
C10_Terminates == pc = "loop" => LoopState \notin turns

(***************************************************************************)
(* What the claims about the calls of the knowledge base speak of          *)
(***************************************************************************)
\* the response is one matching with an empty mapping
OneEmpty(response) == Len(response) = 1 /\ response[1] = EMPTY_MATCHING

\* C11: query(text) returns false when FactSet.ask_fact returns no matching,
\* true when it returns exactly one matching with an empty mapping, and the
\* list of matchings otherwise; ask(fact) returns the list of ask_fact
\* unchanged.
C11_QueryCollapse ==
    (lastop[1] = "query" /\ parses(lastop[2])) =>
        /\ ask(KB, lastop[2]) = ask_fact(fset, lastop[2])
        /\ (ask_fact(fset, lastop[2]) = <<>>) => result = Result("false", <<>>, <<>>)
        /\ OneEmpty(ask_fact(fset, lastop[2])) => result = Result("true", <<>>, <<>>)
        /\ (ask_fact(fset, lastop[2]) # <<>> /\ ~OneEmpty(ask_fact(fset, lastop[2])))
              => result = Result("matchings", ask_fact(fset, lastop[2]), <<>>)

\* a query with a variable answered by a list of one matching
C11_Witness ==
    /\ lastop = <<"query", <<"X1", "is", "b">>>>
    /\ result.kind = "matchings"
    /\ Len(result.matchings) = 1
    /\ result.matchings[1] # EMPTY_MATCHING

\* C12: activations are processed in FIFO order: a turn of the loop of
\* process removes the activation at the front of the queue and leaves the
\* others in their order, and every new activation, of a turn of the loop or
\* of tell, is put behind those that wait.
C12_Fifo ==
    [][ /\ (pc = "loop" /\ activations # <<>>) => IsPrefix(Tail(activations), activations')
        /\ (pc = "idle" /\ told' # told) =>
              /\ IsPrefix(activations, activations')
              /\ Len(activations') = Len(activations) + 1 ]_vars

\* the loop has taken a turn and two activations or more wait
C12_Witness == pc = "loop" /\ turns # {} /\ Len(activations) >= 2

\* tell met the latch: it was called with processing set
LatchTell == pc = "idle" /\ processing /\ told' # told

\* the call only appended its activation and returned without a turn of the loop
OnlyAppended ==
    /\ Len(activations') = Len(activations) + 1
    /\ IsPrefix(activations, activations')
    /\ UNCHANGED <<fset, dset, sset, counter, processing, seen_rules, querying_rules>>

\* C13: a tell invoked while processing is true only appends its activation
\* and returns without running the loop, and that activation is processed by
\* the outermost call of process before it returns: an outermost call is in
\* its loop when the tell has returned.
C13_Latch == [][ LatchTell => (OnlyAppended /\ pc' = "loop") ]_vars

\* the turn of the loop that is about to be taken processes an 'rm' activation
RmTurn == pc = "loop" /\ activations # <<>> /\ Head(activations).kind = "rm"

\* C14: processing an rm activation for a fact F removes F, and only F, from
\* the FactSet: F is no longer answered, every other fact that was answered
\* still is, the CondSet and the ConsSet keep their rules, and no new
\* activation is enqueued.
C14_RmOnlyFact ==
    [][ RmTurn =>
          /\ ~Present(fset', Head(activations).fact)
          /\ \A f \in added \ {Head(activations).fact} : Present(fset, f) => Present(fset', f)
          /\ dset' = dset
          /\ sset' = sset
          /\ activations' = Tail(activations) ]_vars

\* C15: a parse error in tell, query or goal is raised to the caller and
\* changes nothing: the activation queue, the counter, the processing flag,
\* the FactSet, the CondSet and the ConsSet are as they were before the call.
C15_ParseError ==
    [][ lastop'[2] \in BadTexts =>
          /\ result' = Raised
          /\ UNCHANGED <<activations, counter, processing, fset, dset, sset>> ]_vars

\* tell has raised on a text that does not parse, in a knowledge base that
\* holds a fact and a rule
C15_Witness ==
    /\ lastop[1] = "tell"
    /\ lastop[2] \in BadTexts
    /\ result = Raised
    /\ fset # EmptyTree
    /\ dset # EmptyCondSet

\* the consequences the ConsSet holds
ConsOf(s) == UNION {{s[loc][i][1] : i \in 1..Len(s[loc])} : loc \in DOMAIN s}

\* some consequence of a rule of the ConsSet can produce the goal
Producible(g) == \E c \in ConsOf(sset) : Unifies(c, g)

FactSentences(facts) == [i \in 1..Len(facts) |-> Sentence("fact", facts[i], EmptyRule)]

\* the knowledge base as it is once the facts have been told, one after the other
AfterTelling(facts) == run_tells(KB, FactSentences(facts), 1)

\* every tell returned and query(g) then answers true
Answered(after, g) == after.status = "ok" /\ query(after, g) = Result("true", <<>>, <<>>)

\* C17: every fulfillment returned by goal(g) is sufficient: once all the
\* facts of an inner list have been told, query(g) answers true; an empty
\* inner list is returned only when query(g) answers true already.
C17_Sufficient ==
    (lastop[1] = "goal" /\ lastop[2] \in Goals /\ result.kind = "fulfillments") =>
        \A i \in 1..Len(result.fulfillments) :
            Answered(AfterTelling(result.fulfillments[i]), lastop[2])

\* no key comes twice in the matching
UniqueKeys(m) == \A i, j \in 1..Len(m) : m[i][1] = m[j][1] => i = j

\* setitem has replaced the value of an existing key in place, or appended a
\* new key last
SetItemPlaced(m, key, val, out) ==
    IF contains(m, key)
    THEN /\ Len(out) = Len(m)
         /\ \A i \in 1..Len(m) : out[i] = IF m[i][1] = key THEN <<key, val>> ELSE m[i]
    ELSE out = Append(m, <<key, val>>)

\* every pair of out is the pair of m at the same position, up to what the
\* operation does to it: invert swaps it, get_real_matching keeps its value
SamePositions(op, m, out) ==
    /\ Len(out) = Len(m)
    /\ \A i \in 1..Len(m) :
          IF op = "invert" THEN out[i] = <<m[i][2], m[i][1]>> ELSE out[i][2] = m[i][2]

\* C18: every Matching produced by setitem, merge, invert or
\* get_real_matching has unique keys and preserves insertion order: setitem on
\* an existing key replaces the value in place, setitem on a new key appends
\* it last, and invert and get_real_matching keep the position of each pair.
C18_UniqueOrdered ==
    /\ (mout.op # "none" /\ ~mout.raised) => UniqueKeys(mout.value)
    /\ mout.op = "setitem" => SetItemPlaced(m1, mout.key, mout.val, mout.value)
    /\ (mout.op = "merge" /\ ~mout.raised) => IsPrefix(m1, mout.value)
    /\ mout.op \in {"invert", "get_real_matching"} => SamePositions(mout.op, m1, mout.value)

\* some key is bound to different values in the two matchings
Conflict(a, b) ==
    \E i \in 1..Len(a), j \in 1..Len(b) : a[i][1] = b[j][1] /\ a[i][2] # b[j][2]

\* the pairs a matching holds
Pairs(m) == {m[i] : i \in 1..Len(m)}

\* C19: Matching.merge fails with an error exactly when some key is bound to
\* different values in the two matchings; otherwise it returns a matching
\* that holds every pair of both operands (and no other), and neither operand
\* is modified.
C19_MergeConflict ==
    [][ mout'.op = "merge" =>
          /\ mout'.raised <=> Conflict(m1, m2)
          /\ ~mout'.raised => Pairs(mout'.value) = Pairs(m1) \cup Pairs(m2)
          /\ m1' = m1
          /\ m2' = m2 ]_vars

\* merge has been called on two different matchings of two pairs that share
\* their keys, and has returned
C19_Witness ==
    /\ mout.op = "merge"
    /\ MKeys(m1) \cap MKeys(m2) # {}
    /\ Len(m1) = 2
    /\ Len(m2) = 2
    /\ m1 # m2
    /\ ~mout.raised

\* merge has been called, on three matchings no two of which bind a key to
\* different values
MergedCompatible ==
    /\ mout.op = "merge"
    /\ ~Conflict(m1, m2)
    /\ ~Conflict(m1, m3)
    /\ ~Conflict(m2, m3)

\* a.merge(b).merge(c) equals a.merge(b.merge(c))
Associative(a, b, c) ==
    /\ ~merge(merge(a, b).value, c).raised
    /\ ~merge(a, merge(b, c).value).raised
    /\ merge(merge(a, b).value, c).value = merge(a, merge(b, c).value).value

\* C20 as stated: merge is symmetric and associative on non-conflicting
\* matchings: for matchings a, b, c without conflicting keys, a.merge(b)
\* equals b.merge(a) and a.merge(b).merge(c) equals a.merge(b.merge(c)).
C20_MergeSymmetric ==
    MergedCompatible =>
        /\ merge(m1, m2) = merge(m2, m1)
        /\ Associative(m1, m2, m3)

\* C20, amended: for matchings a, b, c with unique keys and without
\* conflicting keys, a.merge(b) and b.merge(a) hold the same pairs, each in
\* the order of its receiver's pairs followed by the new pairs of its
\* argument, and a.merge(b).merge(c) equals a.merge(b.merge(c)).
C20_MergeAlgebra ==
    MergedCompatible =>
        /\ ~merge(m1, m2).raised
        /\ ~merge(m2, m1).raised
        /\ Pairs(merge(m1, m2).value) = Pairs(merge(m2, m1).value)
        /\ IsPrefix(m1, merge(m1, m2).value)
        /\ IsPrefix(m2, merge(m2, m1).value)
        /\ Associative(m1, m2, m3)

\* merge has been called on three compatible matchings that bind different
\* keys, so that the order of the operands shows in the result
C20_Witness ==
    /\ MergedCompatible
    /\ m1 # <<>>
    /\ m3 # <<>>
    /\ MKeys(m2) \ MKeys(m1) # {}
    /\ MKeys(m3) \ MKeys(m1) # {}
    /\ mout.value = merge(m1, m2).value
    /\ Len(mout.value) = 2

\* the name normalize gives to the n-th variable of a fact
NormTok(n) == make_var(n).text[1]

\* the fact with every variable renamed to __X1, __X2, ... in the order of
\* first appearance
Renamed(f) ==
    [p \in 1..Len(f) |->
        IF IsVarTok(f[p])
        THEN NormTok(CHOOSE n \in 1..Len(FirstVars(f)) : FirstVars(f)[n] = f[p])
        ELSE f[p]]

\* the inverse renaming: __Xn to the n-th variable of the fact
InverseRenaming(f) ==
    [n \in 1..Len(FirstVars(f)) |-> <<make_var(n), VarSeg(FirstVars(f)[n])>>]

\* C21: normalize round-trips: normalize(f) renames the variables of f to
\* __X1, __X2, ... in order of first appearance (a repeated variable gets the
\* same name at every occurrence) and returns the inverse renaming, and
\* substituting that inverse renaming into the normalized fact gives back f.
C21_NormalizeRoundTrip ==
    /\ nout.op = "normalize" =>
          /\ ~nout.raises
          /\ nout.normal = Renamed(nout.fact)
          /\ nout.varmap = InverseRenaming(nout.fact)
    /\ nout.op = "substitute" =>
          /\ ~nout.raises
          /\ nout.back = nout.fact

\* the activation a call of tell has put at the back of the queue
ToldActivation == activations'[Len(activations')]

\* the sentence the call of tell was given
ToldSentence == told'[Len(told')]

\* C22: tell enqueues a fact as an activation with query_rules = false and a
\* rule as an activation with the empty matching, the empty fact as condition
\* and query_rules = true, regardless of what activations were processed
\* before.
C22_ToldActivation ==
    [][ told' # told =>
          /\ ToldSentence.kind = "fact" =>
                ToldActivation = Activation("fact", ToldSentence.fact, EmptyRule,
                                            EMPTY_MATCHING, EMPTY_FACT, FALSE)
          /\ ToldSentence.kind = "rule" =>
                ToldActivation = Activation("rule", EMPTY_FACT, ToldSentence.rule,
                                            EMPTY_MATCHING, EMPTY_FACT, TRUE) ]_vars

\* the loop of process is about to take an activation of this kind
Turn(kind) == pc = "loop" /\ activations # <<>> /\ Head(activations).kind = kind

\* the counter has grown by one (the model stops counting at MaxCounter)
Counted == counter < MaxCounter => counter' = counter + 1

\* C23: presence check in the fact branch: processing a fact activation whose
\* fact is already answered by ask leaves the FactSet, CondSet, ConsSet and
\* the rest of the queue unchanged (only the activation is consumed and
\* counter grows by one); a fact not yet present is propagated through the
\* CondSet as it was (the activations go to the back of the queue) and added
\* to the FactSet.
C23_PresenceCheck ==
    [][ Turn("fact") =>
          /\ Counted
          /\ UNCHANGED <<dset, sset>>
          /\ IF Present(fset, Head(activations).fact)
             THEN fset' = fset /\ activations' = Tail(activations)
             ELSE /\ activations' = Tail(activations)
                        \o propagate(dset, <<>>, get_leaf_paths(Head(activations).fact),
                                     EMPTY_MATCHING, TRUE)
                  /\ Present(fset', Head(activations).fact) ]_vars

\* a rule and then twice a fact that is its condition have been told and
\* processed: the second activation of the fact found it present
C23_Witness ==
    /\ Len(told) = 3
    /\ told[1].kind = "rule"
    /\ told[2].kind = "fact"
    /\ told[3] = told[2]
    /\ told[2].fact \in {told[1].rule.conditions[i] : i \in 1..Len(told[1].rule.conditions)}
    /\ pc = "idle"
    /\ ~processing
    /\ Present(fset, told[3].fact)
    /\ counter > 3

\* the rule has an entry in the tree of conditions (or of consequences)
Indexed(d, rule) ==
    \E loc \in DOMAIN d : \E i \in 1..Len(d[loc]) : d[loc][i][3] = rule

\* the conditions of the rule of the activation other than its condition,
\* in their order
Remaining(act) ==
    SelectSeqIdx(act.rule.conditions,
                 {i \in 1..Len(act.rule.conditions) : act.rule.conditions[i] # act.condition}, 1)

\* the facts with every variable the matching binds replaced by its value
Instances(facts, m) == [i \in 1..Len(facts) |-> Instance(facts[i], m)]

\* the rule a rule activation specializes its rule to
Specialized(act) ==
    Rule(Instances(Remaining(act), act.matching), Instances(act.rule.consecuences, act.matching))

\* C24: specialization: processing a rule activation (r, m, c) where r has
\* more than one condition adds to both CondSet and ConsSet one new rule whose
\* conditions are the conditions of r other than c, in the original order and
\* each substituted through m, and whose consequences are the consequences of
\* r substituted through m; exactly one condition is dropped per activation.
C24_Specialization ==
    [][ (Turn("rule") /\ Len(Head(activations).rule.conditions) > 1) =>
          /\ Indexed(dset', Specialized(Head(activations)))
          /\ Indexed(sset', Specialized(Head(activations)))
          /\ Len(Specialized(Head(activations)).conditions)
                = Len(Head(activations).rule.conditions) - 1 ]_vars

\* what a turn of the loop has put at the back of the queue
Appended == SubSeq(activations', Len(activations), Len(activations'))

\* the turn has enqueued the consequences of the activation, substituted
\* through its matching, as fact activations in their order, and after them
\* rule activations only
ConsequencesQueued(act) ==
    /\ IsPrefix(Tail(activations), activations')
    /\ Len(Appended) >= Len(act.rule.consecuences)
    /\ \A i \in 1..Len(Appended) :
          IF i <= Len(act.rule.consecuences)
          THEN /\ Appended[i].kind = "fact"
               /\ Appended[i].fact = Instance(act.rule.consecuences[i], act.matching)
          ELSE Appended[i].kind = "rule"

\* the turn has enqueued no fact
NoFactQueued ==
    /\ IsPrefix(Tail(activations), activations')
    /\ \A i \in 1..Len(Appended) : Appended[i].kind # "fact"

\* some stored fact matches some condition of the rule
SomeConditionMet(rule) ==
    \E i \in 1..Len(rule.conditions) : Present(fset, rule.conditions[i])

\* C25: a rule's consequences become fact activations only when its last
\* remaining condition has been satisfied by a fact: a rule activation with a
\* single condition and a non-empty satisfied condition enqueues the
\* substituted consequences and adds no rule, while telling a rule (condition
\* = empty fact), even one with a single condition, adds the rule to the
\* indexes and enqueues no consequence, and nothing at all when no stored
\* fact matches it.
C25_LastCondition ==
    [][ Turn("rule") =>
          IF Len(Head(activations).rule.conditions) = 1
                /\ Head(activations).condition # EMPTY_FACT
          THEN /\ ConsequencesQueued(Head(activations))
               /\ UNCHANGED <<dset, sset>>
          ELSE /\ NoFactQueued
               /\ Head(activations).condition = EMPTY_FACT =>
                     /\ Indexed(dset', Head(activations).rule)
                     /\ Indexed(sset', Head(activations).rule)
                     /\ ~SomeConditionMet(Head(activations).rule) =>
                           activations' = Tail(activations) ]_vars

\* the activations of facts among those a turn has put at the back of the queue
IsFactActivation(act) == act.kind = "fact"

DerivedFacts == SelectSeq(Appended, IsFactActivation)

\* C26: the facts derived inside one activation are enqueued in the source
\* order of the rule's consequences, contiguously at the back of the queue,
\* and are therefore processed in that order (the queue keeps its order and
\* gives up its head).
C26_ConsequenceOrder ==
    [][ Turn("rule") =>
          /\ IsPrefix(Tail(activations), activations')
          /\ DerivedFacts # <<>> =>
                /\ Len(DerivedFacts) = Len(Head(activations).rule.consecuences)
                /\ \A i \in 1..Len(DerivedFacts) :
                      /\ Appended[i] = DerivedFacts[i]
                      /\ DerivedFacts[i].fact
                            = Instance(Head(activations).rule.consecuences[i],
                                       Head(activations).matching) ]_vars

\* the two consequences of a told rule are in the queue, next to each other
\* and in their order, and the first is at its head
C26_Witness ==
    /\ pc = "loop"
    /\ Len(activations) >= 2
    /\ activations[1].kind = "fact"
    /\ activations[2].kind = "fact"
    /\ \E i \in 1..Len(told) :
          /\ told[i].kind = "rule"
          /\ Len(told[i].rule.consecuences) = 2
          /\ told[i].rule.consecuences[1] # told[i].rule.consecuences[2]
          /\ activations[1].fact = told[i].rule.consecuences[1]
          /\ activations[2].fact = told[i].rule.consecuences[2]

\* the activations of backfill (_new_rule, _new_facts) among those a turn has
\* put at the back of the queue: propagate gives no query_rules
IsBackfill(act) == act.kind = "rule" /\ act.condition # EMPTY_FACT /\ act.query_rules

Backfilled == SelectSeq(Appended, IsBackfill)

BackfillKey(act) == rulestr(act.rule, act.matching, act.condition)

\* C27: backfill deduplication: within one outermost process() call, backfill
\* enqueues at most one activation per key str(rule)+str(matching)+
\* str(condition): a turn of the loop enqueues one activation per new key,
\* none for a key of seen_rules, and adds exactly its keys to seen_rules;
\* seen_rules is emptied at the start of every outermost process() call and
\* is not touched by a nested call that returns at the latch.
C27_BackfillOnce ==
    [][ /\ (pc = "loop" /\ activations # <<>>) =>
              /\ IsPrefix(Tail(activations), activations')
              /\ \A i \in 1..Len(Backfilled) : BackfillKey(Backfilled[i]) \notin seen_rules
              /\ \A i, j \in 1..Len(Backfilled) :
                    BackfillKey(Backfilled[i]) = BackfillKey(Backfilled[j]) => i = j
              /\ seen_rules'
                    = seen_rules \cup {BackfillKey(Backfilled[i]) : i \in 1..Len(Backfilled)}
        /\ (told' # told /\ ~processing) => seen_rules' = {}
        /\ (told' # told /\ processing) => seen_rules' = seen_rules ]_vars

\* a call of tell has returned in which backfill enqueued an activation for a
\* rule of one condition: processing that activation asked for its key again
C27_Witness ==
    /\ pc = "idle"
    /\ ~processing
    /\ \E key \in seen_rules : Len(key[1].conditions) = 1

\* the (condition, varmap, rule) entries of the endnodes of a tree
Entries(d) == UNION {{d[loc][i] : i \in 1..Len(d[loc])} : loc \in DOMAIN d}

\* the turn has put at the back of the queue an activation of the rule for
\* the condition, with a matching that makes the condition the fact
Activated(entry, f) ==
    \E i \in 1..Len(Appended) :
        /\ Appended[i].kind = "rule"
        /\ Appended[i].rule = entry[3]
        /\ Appended[i].condition = entry[1]
        /\ Instance(entry[1], Appended[i].matching) = f

\* C28: completeness of the condition index: when a new fact f is
\* propagated, an activation (rule, m, c) is produced for every condition c
\* of every rule stored in the CondSet that f satisfies, including conditions
\* in which two different variables are bound to the same value and
\* conditions with a repeated variable.
C28_IndexComplete ==
    [][ (Turn("fact") /\ ~Present(fset, Head(activations).fact)) =>
          \A entry \in Entries(dset) :
              Unifies(entry[1], Head(activations).fact)
                  => Activated(entry, Head(activations).fact) ]_vars

\* the keys of the leaf paths of a fact
LeafKeys(f) == cond_location(get_leaf_paths(f))

\* the paths of the condition are a proper prefix of the paths of the fact
ProperPrefix(c, f) == IsPrefix(LeafKeys(c), LeafKeys(f)) /\ Len(LeafKeys(c)) < Len(LeafKeys(f))

\* C29: during propagate an endnode produces activations only when the
\* remaining path list is empty: a condition whose paths are a proper prefix
\* of the fact's paths produces no activation for that fact.
C29_EndnodeAtEnd ==
    [][ (Turn("fact") /\ ~Present(fset, Head(activations).fact)) =>
          \A i \in 1..Len(Appended) :
              ~ProperPrefix(Appended[i].condition, Head(activations).fact) ]_vars

\* every node of the tree is still there, with the entries it had first in
\* its endnode
Kept(d, e) == \A loc \in DOMAIN d : loc \in DOMAIN e /\ IsPrefix(d[loc], e[loc])

\* the condition of the rule has its entry (condition, inverse renaming, rule)
\* in the endnode of the node its normalized form ends at
StoredNormalized(d, cond, rule) ==
    /\ LeafKeys(Renamed(cond)) \in DOMAIN d
    /\ \E i \in 1..Len(d[LeafKeys(Renamed(cond))]) :
          d[LeafKeys(Renamed(cond))][i] = <<cond, InverseRenaming(cond), rule>>

\* a turn of the loop that adds a rule to the indexes
AddsRule ==
    /\ Turn("rule")
    /\ \/ Len(Head(activations).rule.conditions) > 1
       \/ Head(activations).condition = EMPTY_FACT

\* C30: add_rule stores each condition once in normalized form: every
\* condition of an added rule has one entry (condition, inverse renaming,
\* rule) in the EndNode of the node its normalized form ends at, so that two
\* conditions equal up to renaming of variables end at the same node and
\* share one EndNode; adding a rule never removes or replaces the entries or
\* child nodes of previously added rules.
C30_StoredOnce ==
    [][ /\ Kept(dset, dset')
        /\ Kept(sset, sset')
        /\ AddsRule =>
              \A i \in 1..Len(Specialized(Head(activations)).conditions) :
                  StoredNormalized(dset', Specialized(Head(activations)).conditions[i],
                                   Specialized(Head(activations))) ]_vars

RECURSIVE Combinations(_)
\* the ways to take one answer from each list of answers, in order
Combinations(lists) ==
    IF lists = <<>> THEN << <<>> >>
    ELSE Concat([i \in 1..Len(Head(lists)) |->
            [j \in 1..Len(Combinations(Tail(lists))) |->
                <<Head(lists)[i]>> \o Combinations(Tail(lists))[j]]])

RECURSIVE MergedAll(_, _)
\* the matching merged with every answer of a combination
MergedAll(m, combo) ==
    IF combo = <<>> THEN Merged(m, FALSE)
    ELSE IF merge(m, Head(combo)).raised THEN Merged(EMPTY_MATCHING, TRUE)
    ELSE MergedAll(merge(m, Head(combo)).value, Tail(combo))

\* the answers of the conditions that have some, one list per condition
KnownLists(conds) ==
    SelectSeqIdx([i \in 1..Len(conds) |-> ask(KB, conds[i])],
                 {i \in 1..Len(conds) : ask(KB, conds[i]) # <<>>}, 1)

\* the conditions that have no answer
NeededOf(conds) == SelectSeqIdx(conds, {i \in 1..Len(conds) : ask(KB, conds[i]) = <<>>}, 1)

\* the fulfillments of a backtrack: one per combination of known answers
\* whose merge with the matching of the backtrack does not conflict
CombinedFulfillments(bt) ==
    LET conds == Instances(bt.rule.conditions, bt.matching)
        combos == Combinations(KnownLists(conds))
        kept == {j \in 1..Len(combos) : ~MergedAll(bt.matching, combos[j]).raised}
    IN  [j \in 1..Len(SelectSeqIdx(combos, kept, 1)) |->
            Instances(NeededOf(conds),
                      MergedAll(bt.matching, SelectSeqIdx(combos, kept, 1)[j]).value)]

\* C31: goal combines known answers: for a backtrack (rule, m) whose
\* substituted conditions split into needed conditions (no answer from ask)
\* and known conditions (some answers), goal returns one fulfillment per
\* combination of one answer from each known condition whose bindings merge
\* with m without conflict, each being the needed conditions substituted
\* through the merged matching; combinations whose merge conflicts are
\* silently discarded.
C31_GoalCombines ==
    (lastop[1] = "goal" /\ lastop[2] \in Goals /\ result.kind = "fulfillments") =>
        result.fulfillments
            = Concat([i \in 1..Len(backtracks(KB, lastop[2])) |->
                        CombinedFulfillments(backtracks(KB, lastop[2])[i])])

\* C37: the processing latch is released on every exit: whenever no call of
\* process is executing, processing is false, also after a tell whose
\* processing raised an error, so that a later tell runs the saturation loop
\* and drains the queue.
C37_LatchReleased == pc = "idle" => ~processing

\* a turn of the loop in which an error is raised: the call of tell ends there
RaisedTurn == pc = "loop" /\ activations # <<>> /\ pc' = "idle"

\* C32: an error raised while an activation is processed propagates to the
\* caller of tell and leaves no partial fact or rule in the indexes: the
\* FactSet, CondSet and ConsSet are as they were before that activation was
\* taken from the queue (a rule is never present in the CondSet but absent
\* from the ConsSet).
C32_NoPartialIndex ==
    [][RaisedTurn =>
          /\ fset' = fset
          /\ dset' = dset
          /\ sset' = sset
          /\ \A e \in Entries(dset') : Indexed(sset', e[3])]_vars

\* a call of tell returns without an error: process has left its loop with
\* the queue empty, or process has returned at the latch
TellReturns ==
    \/ pc = "loop" /\ activations = <<>> /\ pc' = "idle"
    \/ pc = "idle" /\ told' # told /\ pc' = "idle"

\* C36: quiescence: whenever an outermost tell returns normally, the
\* activation queue is empty and processing is false.
C36_Quiescence == [][TellReturns => (activations' = <<>> /\ ~processing')]_vars

\* an activation is taken from the queue: a turn of the loop of process
Taken == pc = "loop" /\ activations # <<>>

\* C38: counter counts processed activations: it starts at 0, never
\* decreases, grows by exactly one each time an activation is taken from the
\* queue, and is unchanged by query, ask, goal and by a tell that returns at
\* the latch.
C38_CounterCounts ==
    /\ counter = 0
    /\ [][ /\ counter' >= counter
           /\ Taken => Counted
           /\ ~Taken => counter' = counter ]_vars

\* activations have been counted, a tell has returned at the latch and goal
\* has been called
C38_Witness ==
    /\ counter = 2
    /\ pc = "idle" /\ processing /\ activations # <<>>
    /\ lastop[1] = "goal"

\* a call of ask_fact
Asks == lastop'[1] = "ask"

\* C39: ask/query are read-only: ask_fact changes no node of the FactSet
\* tree, enqueues nothing and does not touch counter or processing; its
\* result contains only matchings found by the current call (the response
\* list is reset), so two asks of the same fact with no tell in between
\* return equal results.
C39_AskReadOnly ==
    [][Asks =>
          /\ fset' = fset
          /\ activations' = activations
          /\ counter' = counter
          /\ processing' = processing
          /\ answer' = query_paths(fset, <<>>, get_leaf_paths(lastop'[2]), EMPTY_MATCHING)
          /\ (lastop[1] = "ask" /\ lastop[2] = lastop'[2]) => answer' = answer]_vars

\* a fact of the set has been asked for and found, with facts in the set
C39_Witness == lastop[1] = "ask" /\ answer # <<>> /\ Cardinality(added) >= 2

\* the matching normalize substitutes into the fact it was called on
SubstitutedMatching == normalize_varmap(get_leaf_paths(nout.fact), 1, EMPTY_MATCHING, 1)

\* the path Path.substitute returns ends in the value bound to the segment
\* it replaced
EndsInBound(path, m) ==
    FirstReplaced(path, m) # 0 =>
        SegId(value(path_substitute(path, m).path))
            = SegId(seg_substitute(path[FirstReplaced(path, m)], m))

\* C33: Path.substitute keeps text and leaves consistent: when a segment of
\* the path is a key of the matching, the returned path ends in the bound
\* value and every ancestor segment's text is the old text with the replaced
\* region spliced out and the replacement spliced in, so that
\* Fact.substitute yields a fact whose text is the concatenation of its leaf
\* texts with every bound variable replaced by its value.
C33_SubstituteSplices ==
    nout.op = "normalize" =>
        /\ \A i \in 1..Len(get_all_paths(nout.fact)) :
               EndsInBound(get_all_paths(nout.fact)[i], SubstitutedMatching)
        /\ substituted_text(nout.fact, SubstitutedMatching)
               = Instance(nout.fact, SubstitutedMatching)

\* every key of the matching is a variable of the condition
OwnVariables(m, c) ==
    \A k \in 1..Len(m) : \E p \in 1..Len(c) : IsVarTok(c[p]) /\ m[k][1] = VarSeg(c[p])

\* C34: soundness of the condition index: every activation (rule, m, c)
\* produced by propagating a fact f is keyed by the rule's own variable
\* names and satisfies c.substitute(m) = f; no variable is bound to two
\* different values in m.
C34_IndexSound ==
    [][ (Turn("fact") /\ ~Present(fset, Head(activations).fact)) =>
          \A i \in 1..Len(Appended) :
              /\ Appended[i].kind = "rule"
              /\ OwnVariables(Appended[i].matching, Appended[i].condition)
              /\ UniqueKeys(Appended[i].matching)
              /\ Instance(Appended[i].condition, Appended[i].matching)
                     = Head(activations).fact ]_vars

\* the assignments of words to the variables of the rules
RuleAssignments ==
    { << <<VarSeg("X1"), [name |-> "v_word", text |-> <<w1>>]>>,
         <<VarSeg("X2"), [name |-> "v_word", text |-> <<w2>>]>> >> : w1 \in Words, w2 \in Words }

\* the fact is a sentence tell was called with
ToldFact(f) == \E i \in 1..Len(told) : told[i].kind = "fact" /\ told[i].fact = f

\* the fact is a consequence of a told rule under an assignment that makes
\* every condition of the rule a fact that has been in the FactSet
Inferred(f) ==
    \E i \in 1..Len(told) : \E m \in RuleAssignments :
        /\ told[i].kind = "rule"
        /\ \E j \in 1..Len(told[i].rule.consecuences) :
               Instance(told[i].rule.consecuences[j], m) = f
        /\ \A j \in 1..Len(told[i].rule.conditions) :
               Instance(told[i].rule.conditions[j], m) \in added

\* C35: soundness of inference: in every reachable state each fact in the
\* FactSet was either told directly or is a consequence of a told rule under
\* a variable assignment for which every condition of that rule was present
\* in the FactSet at some earlier point of the run.
C35_InferenceSound ==
    \A f \in added : Present(fset, f) => (ToldFact(f) \/ Inferred(f))

====
